---------------------------- MODULE Spec2Model ----------------------------
(***************************************************************************)
(* Property-to-widget resolution and value (de)serialisation of the SHACL  *)
(* form editors (src/src/inputs.ts).                                       *)
(*                                                                         *)
(* Strings are sequences of chunks (each chunk a piece of text): a string  *)
(* that the code slices or parses is written one character per chunk, an   *)
(* IRI is written <<prefix, local name>>.  The empty string is <<>>.  An   *)
(* optional field that is undefined is <<>> as well (the code tests such   *)
(* fields by truthiness); an optional number is <<>> or <<n>>.             *)
(***************************************************************************)
EXTENDS Integers, Sequences, FiniteSets, TLC

VARIABLES
    phase,        \* "new" before inputFactory has run, "built" after
    property,     \* the ShaclPropertySpec the editor was built from
    kind,         \* the class inputFactory instantiated
    diag,         \* number of console.error diagnostics emitted
    tz,           \* the host's time zone offset in minutes (local = UTC + tz)
    editor,       \* the primary widget: type, value, checked, options, selectedIndex, min, max, step
    langChooser,  \* the auxiliary language chooser of InputLangString
    required,     \* InputBase.required
    result,       \* what the last toRDFObject() returned (NotRead: not called since the last change)
    threw,        \* the last setValue ended in an exception
    loaded,       \* the term of the last setValue, NoTerm once the user edited the widget
    observed,     \* targets of the change events seen by a listener on an ancestor of the editor element
    hist,         \* the setValue calls made since construction, while nothing else touched the editor
    pure,         \* nothing but at most two setValue calls touched the editor since construction
    lastOp        \* the operation that produced this state

vars == <<phase, property, kind, diag, tz, editor, langChooser, required,
          result, threw, loaded, observed, hist, pure, lastOp>>

--------------------------------------------------------------------------
(* Bounds of the model *)

\* user edits (change events) per editor
MaxEvents == 2

--------------------------------------------------------------------------
(* Strings *)

Undefined == <<>>

Truthy(s) == s # <<>>

Digits == <<"0", "1", "2", "3", "4", "5", "6", "7", "8", "9">>

IsDigit(c) == \E d \in 1..10 : Digits[d] = c

DigitVal(c) == (CHOOSE d \in 1..10 : Digits[d] = c) - 1

RECURSIVE Pow10(_)
Pow10(k) == IF k = 0 THEN 1 ELSE 10 * Pow10(k - 1)

\* decimal digits of n >= 0, most significant first, at least one digit
RECURSIVE NatToChars(_)
NatToChars(n) ==
    IF n < 10 THEN <<Digits[n + 1]>> ELSE NatToChars(n \div 10) \o <<Digits[(n % 10) + 1]>>

\* n >= 0 written with exactly w digits (padStart(w, '0')); n < 10^w
RECURSIVE Pad(_, _)
Pad(n, w) == IF w = 0 THEN <<>> ELSE Pad(n \div 10, w - 1) \o <<Digits[(n % 10) + 1]>>

\* String.prototype.slice(0, n)
Slice(s, n) == SubSeq(s, 1, IF Len(s) < n THEN Len(s) ELSE n)

\* String.prototype.replace(pat, ''), pat one chunk: the first occurrence is removed
RECURSIVE ReplaceFirst(_, _)
ReplaceFirst(s, pat) ==
    IF s = <<>> THEN <<>>
    ELSE IF Head(s) = pat THEN Tail(s)
    ELSE <<Head(s)>> \o ReplaceFirst(Tail(s), pat)

\* first index >= i of s that holds no digit (Len(s) + 1 when the digits run to the end)
RECURSIVE DigitRun(_, _)
DigitRun(s, i) == IF i <= Len(s) /\ IsDigit(s[i]) THEN DigitRun(s, i + 1) ELSE i

\* value of the digits s[a .. b-1]
RECURSIVE DigitsVal(_, _, _)
DigitsVal(s, a, b) == IF b <= a THEN 0 ELSE 10 * DigitsVal(s, a, b - 1) + DigitVal(s[b - 1])

--------------------------------------------------------------------------
(* Constants of the vocabulary *)

PREFIX_XSD == "http://www.w3.org/2001/XMLSchema#"
PREFIX_RDF == "http://www.w3.org/1999/02/22-rdf-syntax-ns#"
PREFIX_SHACL == "http://www.w3.org/ns/shacl#"
PREFIX_EX == "http://example.org/"

Xsd(local) == <<PREFIX_XSD, local>>
RdfLangString == <<PREFIX_RDF, "langString">>
ShaclIRI == <<PREFIX_SHACL, "IRI">>

--------------------------------------------------------------------------
(* RDF terms (n3 DataFactory) *)

NamedNode(iri) == [termType |-> "NamedNode", value |-> iri, language |-> <<>>, datatype |-> <<>>]

Literal(value, language, datatype) ==
    [termType |-> "Literal", value |-> value, language |-> language, datatype |-> datatype]

IsLiteral(t) == t.termType = "Literal"

Absent == [termType |-> "Absent"]
NotRead == [termType |-> "NotRead"]
NoTerm == [termType |-> "None"]

\* DataFactory.literal(value, datatype) for a string value and a NamedNode (or
\* undefined) datatype: no datatype, or xsd:string, gives a plain literal
DataFactory_literal(value, datatype) ==
    Literal(value, <<>>, IF datatype = Undefined THEN Xsd("string") ELSE datatype)

\* DataFactory.literal(value, language) for a string language
DataFactory_literalLang(value, language) == Literal(value, language, RdfLangString)

DataFactory_namedNode(value) == NamedNode(value)

--------------------------------------------------------------------------
(* JavaScript numbers: a finite decimal m / 10^k with k minimal, or NaN *)

NaN == [nan |-> TRUE, m |-> 0, k |-> 0]

RECURSIVE Normalize(_, _)
Normalize(m, k) ==
    IF k > 0 /\ m % 10 = 0 THEN Normalize(m \div 10, k - 1) ELSE [nan |-> FALSE, m |-> m, k |-> k]

Abs(n) == IF n < 0 THEN -n ELSE n

\* parseFloat(s): the longest prefix [+-]digits[.digits] (exponents are not
\* among the strings the model feeds it); NaN when there is none
parseFloat(s) ==
    LET signed == Len(s) >= 1 /\ s[1] \in {"-", "+"}
        neg == Len(s) >= 1 /\ s[1] = "-"
        start == IF signed THEN 2 ELSE 1
        ie == DigitRun(s, start)
        hasDot == ie <= Len(s) /\ s[ie] = "."
        fe == IF hasDot THEN DigitRun(s, ie + 1) ELSE ie
        nInt == ie - start
        nFrac == IF hasDot THEN fe - (ie + 1) ELSE 0
        mag == DigitsVal(s, start, ie) * Pow10(nFrac)
                 + (IF nFrac > 0 THEN DigitsVal(s, ie + 1, fe) ELSE 0)
    IN  IF nInt = 0 /\ nFrac = 0 THEN NaN
        ELSE Normalize(IF neg THEN -mag ELSE mag, nFrac)

\* String(n), as the template literal in DataFactory.literal renders a number
NumberToString(n) ==
    IF n.nan THEN <<"N", "a", "N">>
    ELSE (IF n.m < 0 THEN <<"-">> ELSE <<>>)
         \o NatToChars(Abs(n.m) \div Pow10(n.k))
         \o (IF n.k > 0 THEN <<".">> \o Pad(Abs(n.m) % Pow10(n.k), n.k) ELSE <<>>)

\* String(i) of an integer
IntToString(i) == NumberToString([nan |-> FALSE, m |-> i, k |-> 0])

\* DataFactory.literal(value, datatype) for a number value: rendered with
\* String(); without a datatype n3 picks xsd:integer or xsd:double
DataFactory_literalNumber(n, datatype) ==
    Literal(NumberToString(n), <<>>,
            IF datatype # Undefined THEN datatype
            ELSE IF ~n.nan /\ n.k = 0 THEN Xsd("integer") ELSE Xsd("double"))

--------------------------------------------------------------------------
(* JavaScript Date: parsing of the ISO forms and toISOString *)

IsLeap(y) == (y % 4 = 0 /\ y % 100 # 0) \/ y % 400 = 0

DaysIn(y, mo) ==
    IF mo = 2 THEN (IF IsLeap(y) THEN 29 ELSE 28)
    ELSE IF mo \in {4, 6, 9, 11} THEN 30 ELSE 31

NextDay(y, mo, d) ==
    IF d < DaysIn(y, mo) THEN <<y, mo, d + 1>>
    ELSE IF mo < 12 THEN <<y, mo + 1, 1>> ELSE <<y + 1, 1, 1>>

PrevDay(y, mo, d) ==
    IF d > 1 THEN <<y, mo, d - 1>>
    ELSE IF mo > 1 THEN <<y, mo - 1, DaysIn(y, mo - 1)>> ELSE <<y - 1, 12, 31>>

InvalidDate == [valid |-> FALSE, y |-> 0, mo |-> 0, d |-> 0, min |-> 0, s |-> 0, ms |-> 0]

AllDigits(s, idx) == \A i \in idx : i <= Len(s) /\ IsDigit(s[i])

\* the time zone designator z of a date-time string -> <<ok, offset in minutes>>;
\* a date-time without designator is local time (host offset tzo)
ZoneOffset(z, tzo) ==
    IF z = <<>> THEN <<TRUE, tzo>>
    ELSE IF z = <<"Z">> THEN <<TRUE, 0>>
    ELSE IF Len(z) = 6 /\ z[1] \in {"+", "-"} /\ AllDigits(z, {2, 3, 5, 6}) /\ z[4] = ":"
              /\ DigitsVal(z, 2, 4) <= 23 /\ DigitsVal(z, 5, 7) <= 59
         THEN <<TRUE, (IF z[1] = "-" THEN -1 ELSE 1) * (DigitsVal(z, 2, 4) * 60 + DigitsVal(z, 5, 7))>>
    ELSE <<FALSE, 0>>

\* new Date(s) for the ISO forms YYYY-MM-DD and YYYY-MM-DDTHH:mm[:ss[.sss]][Z|+hh:mm],
\* as the instant in UTC; any other string the model feeds it is an Invalid Date
NewDate(s, tzo) ==
    IF ~(Len(s) >= 10 /\ AllDigits(s, {1, 2, 3, 4, 6, 7, 9, 10}) /\ s[5] = "-" /\ s[8] = "-")
    THEN InvalidDate
    ELSE
    LET y == DigitsVal(s, 1, 5)
        mo == DigitsVal(s, 6, 8)
        d == DigitsVal(s, 9, 11)
        dateOk == mo \in 1..12 /\ d >= 1 /\ d <= DaysIn(y, mo)
    IN  IF ~dateOk THEN InvalidDate
        ELSE IF Len(s) = 10
        THEN [valid |-> TRUE, y |-> y, mo |-> mo, d |-> d, min |-> 0, s |-> 0, ms |-> 0]
        ELSE IF ~(Len(s) >= 16 /\ s[11] = "T" /\ AllDigits(s, {12, 13, 15, 16}) /\ s[14] = ":")
        THEN InvalidDate
        ELSE
        LET hh == DigitsVal(s, 12, 14)
            mi == DigitsVal(s, 15, 17)
            hasSec == Len(s) >= 19 /\ s[17] = ":" /\ AllDigits(s, {18, 19})
            p2 == IF hasSec THEN 20 ELSE 17
            ss == IF hasSec THEN DigitsVal(s, 18, 20) ELSE 0
            hasMs == hasSec /\ Len(s) >= p2 + 3 /\ s[p2] = "."
                       /\ AllDigits(s, {p2 + 1, p2 + 2, p2 + 3})
            p3 == IF hasMs THEN p2 + 4 ELSE p2
            ms == IF hasMs THEN DigitsVal(s, p2 + 1, p2 + 4) ELSE 0
            zone == ZoneOffset(SubSeq(s, p3, Len(s)), tzo)
            total == hh * 60 + mi - zone[2]
            day == IF total < 0 THEN PrevDay(y, mo, d)
                   ELSE IF total >= 1440 THEN NextDay(y, mo, d) ELSE <<y, mo, d>>
        IN  IF ~(hh <= 23 /\ mi <= 59 /\ ss <= 59 /\ zone[1]) THEN InvalidDate
            ELSE [valid |-> TRUE, y |-> day[1], mo |-> day[2], d |-> day[3],
                  min |-> (total + 1440) % 1440, s |-> ss, ms |-> ms]

\* Date.prototype.toISOString(): YYYY-MM-DDTHH:mm:ss.sssZ, 24 characters
toISOString(date) ==
    Pad(date.y, 4) \o <<"-">> \o Pad(date.mo, 2) \o <<"-">> \o Pad(date.d, 2) \o <<"T">>
    \o Pad(date.min \div 60, 2) \o <<":">> \o Pad(date.min % 60, 2) \o <<":">> \o Pad(date.s, 2)
    \o <<".">> \o Pad(date.ms, 3) \o <<"Z">>

\* lexical forms used to build date terms
IsoDay(y, mo, d) == Pad(y, 4) \o <<"-">> \o Pad(mo, 2) \o <<"-">> \o Pad(d, 2)
IsoTime(h, mi, s) == <<"T">> \o Pad(h, 2) \o <<":">> \o Pad(mi, 2) \o <<":">> \o Pad(s, 2)

--------------------------------------------------------------------------
(* Inputs of the model: the shapes graph's lists, property specs, terms *)

ExRed == NamedNode(<<PREFIX_EX, "Red">>)
PlainX == Literal(<<"x">>, <<>>, Xsd("string"))
PlainB == Literal(<<"b">>, <<>>, Xsd("string"))
PlainEmpty == Literal(<<>>, <<>>, Xsd("string"))
LangXEn == Literal(<<"x">>, <<"en">>, RdfLangString)
LangYFr == Literal(<<"y">>, <<"fr">>, RdfLangString)
BoolTrue == Literal(<<"true">>, <<>>, Xsd("boolean"))
BoolFalse == Literal(<<"false">>, <<>>, Xsd("boolean"))
IntOne == Literal(<<"1">>, <<>>, Xsd("integer"))
DecOne == Literal(<<"1", ".", "0">>, <<>>, Xsd("decimal"))
DecNeg == Literal(<<"-", "2", ".", "5">>, <<>>, Xsd("decimal"))
DateDay == Literal(IsoDay(2024, 1, 15), <<>>, Xsd("date"))
DateTimeUtc ==
    Literal(IsoDay(2024, 1, 15) \o IsoTime(10, 30, 0) \o <<".", "2", "5", "0", "Z">>, <<>>, Xsd("dateTime"))
DateTimeOffset ==
    Literal(IsoDay(2024, 2, 29) \o IsoTime(23, 30, 0) \o <<"-", "0", "5", ":", "0", "0">>, <<>>, Xsd("dateTime"))
DateTimeLocal == Literal(IsoDay(2024, 1, 1) \o IsoTime(0, 30, 5), <<>>, Xsd("dateTime"))

\* config.lists: list id -> members; "l2" is an empty list, "l3" is no key at all
ConfigLists ==
    (<<"l1">> :> <<ExRed, PlainB, PlainEmpty>>) @@ (<<"l2">> :> <<>>)

ShaclInIds == {Undefined, <<"l1">>, <<"l2">>, <<"l3">>}

\* labels the shapes graph holds for list members
LabelOf(term) == IF term = ExRed THEN <<"Red">> ELSE <<>>

Datatypes ==
    {Undefined, Xsd("string"), Xsd("integer"), Xsd("float"), Xsd("double"), Xsd("decimal"),
     Xsd("date"), Xsd("dateTime"), Xsd("boolean"), RdfLangString, Xsd("anyURI"),
     <<PREFIX_EX, "boolean">>}

NoBounds ==
    [minInclusive |-> <<>>, minExclusive |-> <<>>, maxInclusive |-> <<>>, maxExclusive |-> <<>>]

PropertySpec(datatype, class, nodeKind, minCount, languageIn, shaclIn, b) ==
    [datatype |-> datatype, class |-> class, nodeKind |-> nodeKind, minCount |-> minCount,
     languageIn |-> languageIn, shaclIn |-> shaclIn,
     minInclusive |-> b.minInclusive, minExclusive |-> b.minExclusive,
     maxInclusive |-> b.maxInclusive, maxExclusive |-> b.maxExclusive]

\* every datatype with every list reference, language list and IRI constraint
ResolveSpecs ==
    {PropertySpec(dt, ck[1], ck[2], <<>>, li, si, NoBounds) :
        dt \in Datatypes,
        ck \in {<<Undefined, Undefined>>, <<<<PREFIX_EX, "Color">>, Undefined>>, <<Undefined, ShaclIRI>>},
        li \in {<<>>, <<"en", "de">>},
        si \in ShaclInIds}

\* cardinalities of a boolean property
BooleanSpecs ==
    {PropertySpec(Xsd("boolean"), Undefined, Undefined, mc, <<>>, Undefined, NoBounds) :
        mc \in {<<0>>, <<1>>, <<2>>}}

\* value ranges of a numeric property
NumberSpecs ==
    {PropertySpec(dt, Undefined, Undefined, <<>>, <<>>, Undefined,
                  [minInclusive |-> mi, minExclusive |-> me, maxInclusive |-> xi, maxExclusive |-> xe]) :
        dt \in {Xsd("integer"), Xsd("decimal")},
        mi \in {<<>>, <<0>>, <<2>>}, me \in {<<>>, <<0>>, <<-1>>},
        xi \in {<<>>, <<0>>, <<10>>}, xe \in {<<>>, <<1>>, <<10>>}}

PropertySpecs == ResolveSpecs \cup BooleanSpecs \cup NumberSpecs

\* host time zones: UTC, UTC+02:00, UTC-05:00
TimeZones == {0, 120, -300}

--------------------------------------------------------------------------
(* Widgets (DOM).  An input element stores the string assigned to its      *)
(* value; a select shows the option that matches it.  The defaultValue,    *)
(* label, placeholder and length/pattern attributes play no part in the    *)
(* operations modelled here and are left out.                              *)

\* a freshly created element of the given type
Element(type) ==
    [type |-> type, value |-> <<>>, checked |-> FALSE, options |-> <<>>, selectedIndex |-> 0,
     min |-> Undefined, max |-> Undefined, step |-> Undefined, requiredAttr |-> FALSE]

NoChooser == Element("none")

\* index of the first option whose value is v, 0 when there is none
FirstOption(options, v) ==
    IF \E i \in 1..Len(options) : options[i].value = v
    THEN CHOOSE i \in 1..Len(options) :
            options[i].value = v /\ \A j \in 1..(i - 1) : options[j].value # v
    ELSE 0

\* the value getter: of a select, the selected option's value ('' when none is selected)
ValueOf(w) ==
    IF w.type = "select"
    THEN (IF w.selectedIndex = 0 THEN <<>> ELSE w.options[w.selectedIndex].value)
    ELSE w.value

\* the value setter: a select selects the first option with that value, or none
WithValue(w, v) ==
    IF w.type = "select"
    THEN [w EXCEPT !.selectedIndex = FirstOption(w.options, v)]
    ELSE [w EXCEPT !.value = v]

\* select.options.add(option): the first option added becomes the selected one
AddOption(w, option) ==
    [w EXCEPT !.options = Append(w.options, option),
              !.selectedIndex = IF w.options = <<>> THEN 1 ELSE w.selectedIndex]

Option(value, text) == [value |-> value, text |-> text]

--------------------------------------------------------------------------
(* The editors *)

\* InputBase constructor: required, the editor element and its required attribute
InputBase_required(p) == p.minCount # Undefined /\ p.minCount[1] > 0

InputBase(p, type) == [Element(type) EXCEPT !.requiredAttr = InputBase_required(p)]

InputDate_createEditor(p) ==
    IF p.datatype = Xsd("dateTime") THEN "datetime-local" ELSE "date"

InputNumber_min(p) ==
    IF p.minInclusive # Undefined /\ p.minInclusive[1] # 0 THEN p.minInclusive
    ELSE IF p.minExclusive # Undefined /\ p.minExclusive[1] # 0 THEN <<p.minExclusive[1] + 1>>
    ELSE Undefined

InputNumber_max(p) ==
    IF p.maxInclusive # Undefined /\ p.maxInclusive[1] # 0 THEN p.maxInclusive
    ELSE IF p.maxExclusive # Undefined /\ p.maxExclusive[1] # 0 THEN <<p.maxExclusive[1] - 1>>
    ELSE Undefined

\* if (min) input.min = String(min): a min of 0 is not written
NumberAttr(n) == IF n # Undefined /\ n[1] # 0 THEN IntToString(n[1]) ELSE Undefined

InputNumber(p) ==
    [InputBase(p, "number") EXCEPT
        !.min = NumberAttr(InputNumber_min(p)),
        !.max = NumberAttr(InputNumber_max(p)),
        !.step = IF p.datatype # Xsd("integer") THEN <<"0", ".", "1">> ELSE Undefined]

\* 'required' is removed again from the checkbox
InputBoolean(p) == [InputBase(p, "checkbox") EXCEPT !.requiredAttr = FALSE]

\* createInputListEntries: one entry per list member, in list order, with its label if any
createInputListEntries(list) ==
    [i \in 1..Len(list) |-> [value |-> list[i], label |-> LabelOf(list[i])]]

RECURSIVE AddEntries(_, _, _)
AddEntries(select, list, i) ==
    IF i > Len(list) THEN select
    ELSE AddEntries(
            AddOption(select,
                      Option(list[i].value.value,
                             IF Truthy(list[i].label) THEN list[i].label ELSE list[i].value.value)),
            list, i + 1)

\* the empty option added after the entries instead of before them
setListEntries_emptyLast(select, list) == AddOption(AddEntries(select, list, 1), Option(<<>>, <<>>))

\* an empty option first, then one option per entry
setListEntries(select, list) == AddEntries(AddOption(select, Option(<<>>, <<>>)), list, 1)

InputList(p, listEntries) == setListEntries(InputBase(p, "select"), listEntries)

RECURSIVE AddLanguages(_, _, _)
AddLanguages(select, langs, i) ==
    IF i > Len(langs) THEN select
    ELSE AddLanguages(AddOption(select, Option(<<langs[i]>>, <<langs[i]>>)), langs, i + 1)

\* a select over languageIn, else a free text input
createLangChooser(p) ==
    IF Len(p.languageIn) > 0 THEN AddLanguages(Element("select"), p.languageIn, 1)
    ELSE Element("text")

\* the list config.lists holds for the property's sh:in reference (list?.length)
ListOf(p) == IF p.shaclIn \in DOMAIN ConfigLists THEN ConfigLists[p.shaclIn] ELSE <<>>

\* inputFactory with the datatype switch tried before the langString check
inputFactory_switchFirst(p) ==
    IF Truthy(p.shaclIn) /\ Len(ListOf(p)) > 0 THEN "InputList"
    ELSE LET local == ReplaceFirst(p.datatype, PREFIX_XSD)
         IN  IF local = <<"string">> THEN "InputText"
             ELSE IF local \in {<<"integer">>, <<"float">>, <<"double">>, <<"decimal">>} THEN "InputNumber"
             ELSE IF local \in {<<"date">>, <<"dateTime">>} THEN "InputDate"
             ELSE IF local = <<"boolean">> THEN "InputBoolean"
             ELSE IF p.datatype = RdfLangString \/ Len(p.languageIn) > 0 THEN "InputLangString"
             ELSE "InputText"

\* the class inputFactory instantiates
inputFactory(p) ==
    IF Truthy(p.shaclIn) /\ Len(ListOf(p)) > 0 THEN "InputList"
    ELSE IF p.datatype = RdfLangString \/ Len(p.languageIn) > 0 THEN "InputLangString"
    ELSE LET local == ReplaceFirst(p.datatype, PREFIX_XSD)
         IN  IF local = <<"string">> THEN "InputText"
             ELSE IF local \in {<<"integer">>, <<"float">>, <<"double">>, <<"decimal">>} THEN "InputNumber"
             ELSE IF local \in {<<"date">>, <<"dateTime">>} THEN "InputDate"
             ELSE IF local = <<"boolean">> THEN "InputBoolean"
             ELSE "InputText"

\* the diagnostic moved out of the else branch: logged for every sh:in reference
inputFactory_errors_anyList(p) == IF Truthy(p.shaclIn) THEN 1 ELSE 0

\* console.error('list not found:', ...) calls made by inputFactory
inputFactory_errors(p) == IF Truthy(p.shaclIn) /\ ~(Len(ListOf(p)) > 0) THEN 1 ELSE 0

\* the primary widget of a new editor of class k
NewEditor(k, p) ==
    CASE k = "InputList" -> InputList(p, createInputListEntries(ListOf(p)))
      [] k = "InputNumber" -> InputNumber(p)
      [] k = "InputDate" -> InputBase(p, InputDate_createEditor(p))
      [] k = "InputBoolean" -> InputBoolean(p)
      [] OTHER -> InputBase(p, "text")

NewLangChooser(k, p) == IF k = "InputLangString" THEN createLangChooser(p) ELSE NoChooser

--------------------------------------------------------------------------
(* setValue and toRDFObject of each class, on ui = [editor, langChooser] *)

Ui(e, c) == [editor |-> e, langChooser |-> c, threw |-> FALSE]

\* InputBase.setValue: this.editor.value = value.value
InputBase_setValue(ui, value) == [ui EXCEPT !.editor = WithValue(ui.editor, value.value), !.threw = FALSE]

\* setValue with the two slice lengths exchanged
InputDate_setValue_swapped(ui, value, p, tzo) ==
    LET date == NewDate(value.value, tzo)
        isoDate == IF ui.editor.type = "datetime-local"
                   THEN Slice(toISOString(date), 10)
                   ELSE Slice(toISOString(date), 19)
    IN  IF ~date.valid THEN [ui EXCEPT !.threw = TRUE]
        ELSE InputBase_setValue(ui, DataFactory_literal(isoDate, p.datatype))

\* InputDate.setValue; toISOString throws a RangeError on an Invalid Date
InputDate_setValue(ui, value, p, tzo) ==
    LET date == NewDate(value.value, tzo)
        isoDate == IF ui.editor.type = "datetime-local"
                   THEN Slice(toISOString(date), 19)
                   ELSE Slice(toISOString(date), 10)
    IN  IF ~date.valid THEN [ui EXCEPT !.threw = TRUE]
        ELSE InputBase_setValue(ui, DataFactory_literal(isoDate, p.datatype))

\* setValue that leaves the language chooser alone
InputLangString_setValue_textOnly(ui, value) == InputBase_setValue(ui, value)

InputLangString_setValue(ui, value) ==
    LET base == InputBase_setValue(ui, value)
    IN  IF IsLiteral(value)
        THEN [base EXCEPT !.langChooser = WithValue(ui.langChooser, value.language)]
        ELSE base

InputBoolean_setValue(ui, value) ==
    IF IsLiteral(value)
    THEN [ui EXCEPT !.editor.checked = (value.value = <<"true">>), !.threw = FALSE]
    ELSE [ui EXCEPT !.threw = FALSE]

setValue(k, ui, value, p, tzo) ==
    CASE k = "InputDate" -> InputDate_setValue(ui, value, p, tzo)
      [] k = "InputLangString" -> InputLangString_setValue(ui, value)
      [] k = "InputBoolean" -> InputBoolean_setValue(ui, value)
      [] OTHER -> InputBase_setValue(ui, value)

\* property.class || property.nodeKind?.id === `${PREFIX_SHACL}IRI`
IsIRIProperty(p) == Truthy(p.class) \/ p.nodeKind = ShaclIRI

InputDate_toRDFObject(ui, p) ==
    IF Truthy(ValueOf(ui.editor)) THEN DataFactory_literal(ValueOf(ui.editor), p.datatype) ELSE Absent

InputText_toRDFObject(ui, p) ==
    IF Truthy(ValueOf(ui.editor))
    THEN (IF IsIRIProperty(p) THEN DataFactory_namedNode(ValueOf(ui.editor))
          ELSE DataFactory_literal(ValueOf(ui.editor), p.datatype))
    ELSE Absent

InputLangString_toRDFObject(ui, p) ==
    IF Truthy(ValueOf(ui.editor))
    THEN (IF Truthy(ValueOf(ui.langChooser))
          THEN DataFactory_literalLang(ValueOf(ui.editor), ValueOf(ui.langChooser))
          ELSE DataFactory_literal(ValueOf(ui.editor), p.datatype))
    ELSE Absent

\* toRDFObject that emits 'false' whether required or not
InputBoolean_toRDFObject_always(ui, p, req) ==
    DataFactory_literal(IF ui.editor.checked THEN <<"true">> ELSE <<"false">>, p.datatype)

\* emit 'false' only when required
InputBoolean_toRDFObject(ui, p, req) ==
    IF ui.editor.checked \/ req
    THEN DataFactory_literal(IF ui.editor.checked THEN <<"true">> ELSE <<"false">>, p.datatype)
    ELSE Absent

InputNumber_toRDFObject(ui, p) ==
    IF Truthy(ValueOf(ui.editor))
    THEN DataFactory_literalNumber(parseFloat(ValueOf(ui.editor)), p.datatype)
    ELSE Absent

\* toRDFObject without the class / node kind branch
InputList_toRDFObject_literal(ui, p) ==
    IF Truthy(ValueOf(ui.editor)) THEN DataFactory_literal(ValueOf(ui.editor), p.datatype) ELSE Absent

InputList_toRDFObject(ui, p) ==
    IF Truthy(ValueOf(ui.editor))
    THEN (IF IsIRIProperty(p) THEN DataFactory_namedNode(ValueOf(ui.editor))
          ELSE DataFactory_literal(ValueOf(ui.editor), p.datatype))
    ELSE Absent

toRDFObject(k, ui, p, req) ==
    CASE k = "InputDate" -> InputDate_toRDFObject(ui, p)
      [] k = "InputLangString" -> InputLangString_toRDFObject(ui, p)
      [] k = "InputBoolean" -> InputBoolean_toRDFObject(ui, p, req)
      [] k = "InputNumber" -> InputNumber_toRDFObject(ui, p)
      [] k = "InputList" -> InputList_toRDFObject(ui, p)
      [] OTHER -> InputText_toRDFObject(ui, p)

--------------------------------------------------------------------------
(* Change events *)

\* the listener without ev.stopPropagation()
ChooserChangeListener_propagating == [stopPropagation |-> FALSE, dispatch |-> <<"editor">>]

\* the chooser's 'change' listener: ev.stopPropagation(), then a bubbling
\* 'change' event is dispatched on this.editor
ChooserChangeListener == [stopPropagation |-> TRUE, dispatch |-> <<"editor">>]

NoListener == [stopPropagation |-> FALSE, dispatch |-> <<>>]

ListenerOn(target) == IF target = "langChooser" THEN ChooserChangeListener ELSE NoListener

\* the targets of the events that reach a listener on an ancestor of the editor
\* element when a bubbling 'change' event fires on target: the events the
\* target's listener dispatches (synchronously, each bubbling from a widget
\* without listeners), then the event itself unless its propagation was stopped
DispatchChange(target) ==
    ListenerOn(target).dispatch
    \o (IF ListenerOn(target).stopPropagation THEN <<>> ELSE <<target>>)

--------------------------------------------------------------------------
(* The state machine *)

\* the terms setValue is called with, per class.  A date editor is given ISO
\* date strings and strings that are no date at all (JavaScript leaves the
\* parsing of other strings to the implementation).
TermsFor(k) ==
    CASE k = "InputDate" -> {DateDay, DateTimeUtc, DateTimeOffset, DateTimeLocal, PlainX, PlainEmpty}
      [] k = "InputNumber" -> {IntOne, DecOne, DecNeg, ExRed, PlainX, PlainEmpty}
      [] k = "InputBoolean" -> {BoolTrue, BoolFalse, ExRed, PlainX}
      [] k = "InputLangString" -> {LangXEn, LangYFr, PlainX, PlainEmpty, ExRed}
      [] k = "InputList" -> {ExRed, PlainB, PlainX, PlainEmpty, Literal(<<PREFIX_EX, "Red">>, <<>>, Xsd("string"))}
      [] OTHER -> {PlainX, PlainB, PlainEmpty, ExRed, LangXEn}

\* what a user can enter into the primary widget
UserTexts(k) ==
    CASE k = "InputDate" -> {<<>>, IsoDay(2024, 1, 15)}
      [] k = "InputNumber" -> {<<>>, <<"7">>, <<"2", ".", "5", "0">>}
      [] k \in {"InputText", "InputLangString"} -> {<<>>, <<"x">>, <<"z">>}
      [] OTHER -> {}

\* what a user can enter into the language chooser
UserLanguages(c) ==
    IF c.type = "select" THEN {c.options[i].value : i \in 1..Len(c.options)}
    ELSE IF c.type = "text" THEN {<<>>, <<"en">>, <<"de">>}
    ELSE {}

NoProperty == PropertySpec(Undefined, Undefined, Undefined, <<>>, <<>>, Undefined, NoBounds)

Init ==
    /\ phase = "new"
    /\ property = NoProperty
    /\ kind = "none"
    /\ diag = 0
    /\ tz = 0
    /\ editor = Element("none")
    /\ langChooser = NoChooser
    /\ required = FALSE
    /\ result = NotRead
    /\ threw = FALSE
    /\ loaded = NoTerm
    /\ observed = <<>>
    /\ hist = <<>>
    /\ pure = TRUE
    /\ lastOp = "none"

\* the host renders property p: inputFactory(p)
CreateInput(p, tzo) ==
    /\ phase = "new"
    /\ tzo # 0 => inputFactory(p) = "InputDate"
    /\ phase' = "built"
    /\ property' = p
    /\ kind' = inputFactory(p)
    /\ diag' = diag + inputFactory_errors(p)
    /\ tz' = tzo
    /\ editor' = NewEditor(inputFactory(p), p)
    /\ langChooser' = NewLangChooser(inputFactory(p), p)
    /\ required' = InputBase_required(p)
    /\ lastOp' = "inputFactory"
    /\ UNCHANGED <<result, threw, loaded, observed, hist, pure>>

\* the host loads a value: setValue(t)
SetValue(t) ==
    /\ phase = "built"
    /\ t \in TermsFor(kind)
    /\ LET after == setValue(kind, Ui(editor, langChooser), t, property, tz)
       IN  /\ editor' = after.editor
           /\ langChooser' = after.langChooser
           /\ threw' = after.threw
    /\ IF pure /\ Len(hist) < 2
       THEN hist' = Append(hist, t) /\ pure' = TRUE
       ELSE hist' = <<>> /\ pure' = FALSE
    /\ result' = NotRead
    /\ loaded' = t
    /\ lastOp' = "setValue"
    /\ UNCHANGED <<phase, property, kind, diag, tz, required, observed>>

\* the host saves: toRDFObject()
ToRDFObject ==
    /\ phase = "built"
    /\ result' = toRDFObject(kind, Ui(editor, langChooser), property, required)
    /\ lastOp' = "toRDFObject"
    /\ UNCHANGED <<phase, property, kind, diag, tz, editor, langChooser, required,
                   threw, loaded, observed, hist, pure>>

Touched ==
    /\ result' = NotRead
    /\ loaded' = NoTerm
    /\ hist' = <<>>
    /\ pure' = FALSE
    /\ UNCHANGED <<phase, property, kind, diag, tz, required, threw>>

\* the user edits the primary text, number or date widget
TypeText(v) ==
    /\ phase = "built"
    /\ Len(observed) < MaxEvents
    /\ v \in UserTexts(kind)
    /\ v # ValueOf(editor)
    /\ editor' = WithValue(editor, v)
    /\ observed' = observed \o DispatchChange("editor")
    /\ lastOp' = "TypeText"
    /\ UNCHANGED langChooser
    /\ Touched

\* the user ticks or unticks the checkbox
Toggle ==
    /\ phase = "built"
    /\ Len(observed) < MaxEvents
    /\ kind = "InputBoolean"
    /\ editor' = [editor EXCEPT !.checked = ~editor.checked]
    /\ observed' = observed \o DispatchChange("editor")
    /\ lastOp' = "Toggle"
    /\ UNCHANGED langChooser
    /\ Touched

\* the user picks another choice of the list
SelectOption(i) ==
    /\ phase = "built"
    /\ Len(observed) < MaxEvents
    /\ kind = "InputList"
    /\ i \in 1..Len(editor.options)
    /\ i # editor.selectedIndex
    /\ editor' = [editor EXCEPT !.selectedIndex = i]
    /\ observed' = observed \o DispatchChange("editor")
    /\ lastOp' = "SelectOption"
    /\ UNCHANGED langChooser
    /\ Touched

\* the user changes the language chooser
ChangeLanguage(v) ==
    /\ phase = "built"
    /\ Len(observed) < MaxEvents
    /\ kind = "InputLangString"
    /\ v \in UserLanguages(langChooser)
    /\ v # ValueOf(langChooser)
    /\ langChooser' = WithValue(langChooser, v)
    /\ observed' = observed \o DispatchChange("langChooser")
    /\ lastOp' = "ChangeLanguage"
    /\ UNCHANGED editor
    /\ Touched

AllTerms == UNION {TermsFor(k) : k \in {"InputDate", "InputNumber", "InputBoolean",
                                        "InputLangString", "InputList", "InputText"}}

AllTexts == UNION {UserTexts(k) : k \in {"InputDate", "InputNumber", "InputText"}}

Next ==
    \/ \E p \in PropertySpecs, tzo \in TimeZones : CreateInput(p, tzo)
    \/ \E t \in AllTerms : SetValue(t)
    \/ ToRDFObject
    \/ \E v \in AllTexts : TypeText(v)
    \/ Toggle
    \/ \E i \in 1..4 : SelectOption(i)
    \/ \E v \in {<<>>, <<"en">>, <<"de">>} : ChangeLanguage(v)

Spec == Init /\ [][Next]_vars

--------------------------------------------------------------------------
(* Properties *)

Built == phase = "built"

HasRead == result # NotRead

\* the datatype a literal of the property carries (none given: a plain literal)
DatatypeOf(p) == IF p.datatype = Undefined THEN Xsd("string") ELSE p.datatype

\* the editor kind section 4.1 of the specification prescribes
StripXsd(dt) == IF dt # <<>> /\ Head(dt) = PREFIX_XSD THEN Tail(dt) ELSE dt

ListMaterialized(p) == p.shaclIn \in DOMAIN ConfigLists /\ ConfigLists[p.shaclIn] # <<>>

ExpectedKind(p) ==
    IF p.shaclIn # Undefined /\ ListMaterialized(p) THEN "InputList"
    ELSE IF p.datatype = RdfLangString \/ p.languageIn # <<>> THEN "InputLangString"
    ELSE IF StripXsd(p.datatype) = <<"string">> THEN "InputText"
    ELSE IF \E n \in {"integer", "float", "double", "decimal"} : StripXsd(p.datatype) = <<n>>
         THEN "InputNumber"
    ELSE IF \E n \in {"date", "dateTime"} : StripXsd(p.datatype) = <<n>> THEN "InputDate"
    ELSE IF StripXsd(p.datatype) = <<"boolean">> THEN "InputBoolean"
    ELSE "InputText"

\* C1: inputFactory returns, for every property spec, the one editor kind the
\* first matching rule names: a non-empty sh:in list -> List; rdf:langString or
\* a non-empty languageIn -> LangString; xsd:string -> Text, xsd:integer, float,
\* double, decimal -> Number, xsd:date, dateTime -> Date, xsd:boolean -> Boolean;
\* anything else -> Text.
C1_ResolveFirstMatch ==
    Built => /\ kind = ExpectedKind(property)
             /\ kind \in {"InputList", "InputLangString", "InputText", "InputNumber",
                          "InputDate", "InputBoolean"}

\* an empty list falls through to the datatype switch, a language list wins over it
C1_Witness ==
    /\ Built
    /\ property.shaclIn = <<"l2">>
    /\ property.datatype = Xsd("dateTime")
    /\ property.languageIn = <<>>
    /\ kind = "InputDate"

\* C2: a diagnostic is emitted exactly when shaclIn is set and its list is
\* missing or empty, and the editor is then the one the same spec without
\* shaclIn gets, never a List editor.
C2_MissingListFallsThrough ==
    Built =>
        LET missing == property.shaclIn # Undefined /\ ~ListMaterialized(property)
        IN  /\ diag = (IF missing THEN 1 ELSE 0)
            /\ missing => /\ kind = inputFactory([property EXCEPT !.shaclIn = Undefined])
                          /\ kind # "InputList"

C2_Witness ==
    /\ Built
    /\ property.shaclIn = <<"l3">>
    /\ diag = 1
    /\ kind = "InputNumber"

\* whether the term is of the form the editor kind emits for the property
Accepts(k, p, t) ==
    /\ t.value # <<>>
    /\ CASE k = "InputText" ->
                IF IsIRIProperty(p) THEN t.termType = "NamedNode"
                ELSE IsLiteral(t) /\ t.language = <<>> /\ t.datatype = DatatypeOf(p)
         [] k = "InputList" ->
                /\ \E i \in 1..Len(ListOf(p)) : ListOf(p)[i].value = t.value
                /\ IF IsIRIProperty(p) THEN t.termType = "NamedNode"
                   ELSE IsLiteral(t) /\ t.language = <<>> /\ t.datatype = DatatypeOf(p)
         [] k = "InputLangString" ->
                /\ IsLiteral(t) /\ t.language # <<>> /\ t.datatype = RdfLangString
                /\ p.languageIn # <<>> => \E i \in 1..Len(p.languageIn) : <<p.languageIn[i]>> = t.language
         [] k = "InputNumber" ->
                IsLiteral(t) /\ t.language = <<>> /\ t.datatype = DatatypeOf(p) /\ ~parseFloat(t.value).nan
         [] k = "InputDate" ->
                IsLiteral(t) /\ t.language = <<>> /\ t.datatype = DatatypeOf(p) /\ NewDate(t.value, 0).valid
         [] k = "InputBoolean" ->
                IsLiteral(t) /\ t.language = <<>> /\ t.datatype = DatatypeOf(p)
                /\ t.value \in {<<"true">>, <<"false">>}
         [] OTHER -> FALSE

\* r is a term observably equivalent to t: the same variant, datatype and
\* language tag, and the same value, a number compared as a number and a date
\* in its normalised form cut to the widget's precision
Equivalent(k, p, tzo, t, r) ==
    /\ r.termType = t.termType
    /\ r.datatype = t.datatype
    /\ r.language = t.language
    /\ CASE k = "InputNumber" -> parseFloat(r.value) = parseFloat(t.value)
         [] k = "InputDate" ->
                r.value = Slice(toISOString(NewDate(t.value, tzo)),
                                IF p.datatype = Xsd("dateTime") THEN 19 ELSE 10)
         [] OTHER -> r.value = t.value

\* one setValue on the fresh editor, then toRDFObject
LoadedAndRead == Built /\ pure /\ Len(hist) = 1 /\ HasRead

C4_BooleanAsymmetry ==
    (Built /\ kind = "InputBoolean" /\ HasRead) =>
        LET req == property.minCount # <<>> /\ property.minCount[1] > 0
        IN  result = IF editor.checked THEN Literal(<<"true">>, <<>>, property.datatype)
                     ELSE IF req THEN Literal(<<"false">>, <<>>, property.datatype)
                     ELSE Absent

\* a required box, ticked by the user, unticked by setValue, reads "false"
C4_Witness ==
    /\ kind = "InputBoolean"
    /\ property.minCount = <<2>>
    /\ Len(observed) >= 1
    /\ loaded = BoolFalse
    /\ result = BoolFalse

\* the UI bound the claim derives from an inclusive and an exclusive bound
ClaimedBound(inclusive, exclusive, delta) ==
    IF inclusive # <<>> THEN IntToString(inclusive[1])
    ELSE IF exclusive # <<>> THEN IntToString(exclusive[1] + delta)
    ELSE Undefined

\* the step in effect: a number input without step attribute steps by 1
StepOf(w) == IF w.step = Undefined THEN <<"1">> ELSE w.step

\* C5: the Number editor's min is minInclusive, else minExclusive + 1, else
\* unset; its max is maxInclusive, else maxExclusive - 1, else unset; its step
\* is 1 for xsd:integer and 0.1 otherwise; for every bound value, 0 included.
C5_NumberBounds ==
    (Built /\ kind = "InputNumber") =>
        /\ editor.min = ClaimedBound(property.minInclusive, property.minExclusive, 1)
        /\ editor.max = ClaimedBound(property.maxInclusive, property.maxExclusive, -1)
        /\ StepOf(editor) = IF property.datatype = Xsd("integer") THEN <<"1">> ELSE <<"0", ".", "1">>

\* the term the claim names for the list member with lexical value v
ClaimedListTerm(p, v) ==
    IF p.class # Undefined \/ p.nodeKind = ShaclIRI THEN NamedNode(v)
    ELSE Literal(v, <<>>, DatatypeOf(p))

ListRead == Built /\ kind = "InputList" /\ HasRead

\* the materialized list the editor was built for
Entries == createInputListEntries(ListOf(property))

\* C6 as stated: the empty choice reads Absent, and entry i reads as the term
\* with that entry's lexical value, for every entry of the list.
C6_ListSelectionEveryEntry ==
    ListRead =>
        /\ editor.selectedIndex = 1 => result = Absent
        /\ \A i \in 1..Len(Entries) :
              editor.selectedIndex = i + 1
                  => result = ClaimedListTerm(property, Entries[i].value.value)

\* C6, amended: the empty choice reads Absent; entry i reads as the term with
\* that entry's lexical value when that value is not the empty string, and
\* Absent when it is.
C6_ListSelection ==
    ListRead =>
        /\ editor.selectedIndex = 1 => result = Absent
        /\ \A i \in 1..Len(Entries) :
              editor.selectedIndex = i + 1
                  => result = IF Entries[i].value.value = <<>> THEN Absent
                              ELSE ClaimedListTerm(property, Entries[i].value.value)

\* the user picked the second entry of a list whose property has a class
C6_Witness ==
    /\ ListRead
    /\ lastOp = "toRDFObject"
    /\ Len(observed) >= 1
    /\ editor.selectedIndex = 3
    /\ property.class # Undefined
    /\ result = NamedNode(<<"b">>)

\* what a user sees of the editor: the primary widget's value, the checkbox
\* state, the language chooser's value
Observable(ui) == <<ValueOf(ui.editor), ui.editor.checked, ValueOf(ui.langChooser)>>

FreshUi == Ui(NewEditor(kind, property), NewLangChooser(kind, property))

\* C7: after setValue(t1); setValue(t2), both returning, the editor shows what
\* setValue(t2) alone shows on a fresh editor (with t1 = t2: setValue is
\* idempotent).
C7_SetValueOverwrites ==
    (Built /\ pure /\ Len(hist) = 2 /\ ~threw)
        => Observable(Ui(editor, langChooser))
             = Observable(setValue(kind, FreshUi, hist[2], property, tz))

\* C8: a List editor offers the empty choice first and then one choice per
\* list entry, in list order, labelled with the entry's label if it has one and
\* with its lexical value otherwise; this stays so after every operation.
C8_ListChoices ==
    (Built /\ kind = "InputList") =>
        /\ Len(editor.options) = Len(Entries) + 1
        /\ editor.options[1] = Option(<<>>, <<>>)
        /\ \A i \in 1..Len(Entries) :
              editor.options[i + 1].text
                  = IF Entries[i].label # <<>> THEN Entries[i].label ELSE Entries[i].value.value

\* the choices "", "Red", "b", "" after the user picked one and a value was loaded
C8_Witness ==
    /\ Built
    /\ kind = "InputList"
    /\ Len(observed) >= 1
    /\ loaded # NoTerm
    /\ Len(editor.options) = 4
    /\ editor.options[2].text = <<"Red">>
    /\ editor.options[3].text = <<"b">>

\* C9: the Date editor's setValue stores the normalised ISO form of the term's
\* lexical value, cut to 19 characters for xsd:dateTime and to 10 otherwise,
\* and toRDFObject then returns that string with the property's datatype.
C9_DateTruncation ==
    (Built /\ kind = "InputDate" /\ loaded # NoTerm /\ NewDate(loaded.value, tz).valid) =>
        LET stored == Slice(toISOString(NewDate(loaded.value, tz)),
                            IF property.datatype = Xsd("dateTime") THEN 19 ELSE 10)
        IN  /\ ValueOf(editor) = stored
            /\ Len(stored) = IF property.datatype = Xsd("dateTime") THEN 19 ELSE 10
            /\ HasRead => result = Literal(stored, <<>>, property.datatype)

\* 2024-02-29T23:30:00-05:00 is stored and read back as 2024-03-01T04:30:00
C9_Witness ==
    /\ kind = "InputDate"
    /\ loaded = DateTimeOffset
    /\ result = Literal(IsoDay(2024, 3, 1) \o IsoTime(4, 30, 0), <<>>, Xsd("dateTime"))

\* C10: a change of the language chooser reaches the listeners outside the
\* editor as exactly one change event, whose target is the primary widget.
C10_ChooserChangeSurfacesOnEditor ==
    [][lastOp' = "ChangeLanguage" => observed' = Append(observed, "editor")]_vars

C10_Witness ==
    /\ kind = "InputLangString"
    /\ lastOp = "ChangeLanguage"
    /\ ValueOf(langChooser) = <<"de">>
    /\ observed = <<"editor", "editor">>

==========================================================================
